---- MODULE Spec2Model ----
(***************************************************************************)
(* Model of the ropee gateway (src/main.go): the /read and /write HTTP     *)
(* handlers registered by main, the write client built once at startup,    *)
(* the per-request read client, the two request counters and the response  *)
(* each handler commits.  One request runs in each slot of Procs; the      *)
(* handlers of different slots interleave step by step, as net/http runs   *)
(* one goroutine per request.                                              *)
(***************************************************************************)
EXTENDS Integers, Sequences, FiniteSets, TLC

(* ---------------------------------------------------------------- bounds *)

\* number of requests served concurrently
NumRequests == 2

Procs == 1..NumRequests

(* ------------------------------------------------------------- constants *)

StatusOK == 200
StatusBadRequest == 400
StatusInternalServerError == 500

\* flag "timeout", default value
TimeoutSeconds == 60

\* no status line committed yet on a ResponseWriter
NoStatus == 0

(* ------------------------------------------------------- request headers *)

\* Strings of credentials are sequences of characters, so that splitting
\* them is computed.
EmptyStr == <<>>

\* The credentials a caller may intend to send.  The user name holds no
\* colon (RFC 7617); the password may.
CallerCreds == { <<<<"u">>, <<"p", ":", "w">>>> }

\* What a client puts in the Authorization header for (user, pass): the
\* scheme Basic and base64(user ":" pass); base64 is kept as a flag telling
\* whether the payload decodes, next to the decoded bytes.
BasicHeader(c) ==
    [present |-> TRUE, scheme |-> "Basic", b64ok |-> TRUE,
     payload |-> c[1] \o <<":">> \o c[2]]

NoHeader ==
    [present |-> FALSE, scheme |-> "", b64ok |-> FALSE, payload |-> EmptyStr]

\* Headers r.BasicAuth() cannot parse: another scheme, a payload that is
\* not base64, a payload without a colon.
BadHeaders ==
    { [present |-> TRUE, scheme |-> "Bearer", b64ok |-> TRUE,
       payload |-> <<"u", ":", "p">>],
      [present |-> TRUE, scheme |-> "Basic", b64ok |-> FALSE,
       payload |-> <<"u", ":", "p">>],
      [present |-> TRUE, scheme |-> "Basic", b64ok |-> TRUE,
       payload |-> <<"u", "p">>] }

\* the Authorization headers of /read requests: every branch of BasicAuth
ReadAuthHeaders ==
    {NoHeader} \cup {BasicHeader(c) : c \in CallerCreds} \cup BadHeaders

\* the Authorization headers of /write requests
WriteAuthHeaders == {NoHeader} \cup {BasicHeader(c) : c \in CallerCreds}

\* index of the first ":" of s, 0 when there is none (strings.Cut)
RECURSIVE IndexColon(_, _)
IndexColon(s, i) ==
    IF i > Len(s) THEN 0
    ELSE IF s[i] = ":" THEN i
    ELSE IndexColon(s, i + 1)

\* r.BasicAuth(): (username, password, ok)
BasicAuth(h) ==
    LET i == IndexColon(h.payload, 1)
    IN  IF h.present /\ h.scheme = "Basic" /\ h.b64ok /\ i > 0
        THEN <<SubSeq(h.payload, 1, i - 1),
               SubSeq(h.payload, i + 1, Len(h.payload)), TRUE>>
        ELSE <<EmptyStr, EmptyStr, FALSE>>

(* -------------------------------------------------------- backend client *)

\* the absent handle: what NewClient returns next to an error
Nil == [id |-> 0, user |-> EmptyStr, pass |-> EmptyStr, timeout |-> 0]

\* storage.NewClient(url, user, pass, ..., timeout, l): fails on a
\* configuration it cannot use (a malformed URL); id names the allocation.
NewClient(urlOk, user, pass, timeout, id) ==
    IF urlOk
    THEN [id |-> id, user |-> user, pass |-> pass, timeout |-> timeout]
    ELSE Nil

(* -------------------------------------------------------- ResponseWriter *)

NewWriter ==
    [status |-> NoStatus, ctype |-> "", cenc |-> "", body |-> <<>>,
     superfluous |-> 0]

\* w.Header().Set(...): headers are sent with the status line, a change
\* after that is not sent
SetHeaders(w, ctype, cenc) ==
    IF w.status = NoStatus THEN [w EXCEPT !.ctype = ctype, !.cenc = cenc] ELSE w

\* w.WriteHeader(code): the first call commits the status, a later call is
\* a superfluous call net/http ignores
WriteHeader(w, code) ==
    IF w.status = NoStatus
    THEN [w EXCEPT !.status = code]
    ELSE [w EXCEPT !.superfluous = @ + 1]

\* w.Write(data): commits 200 when no status is committed yet, then sends
\* the bytes; ok tells whether the connection took them
WriterWrite(w, data, ok) ==
    LET w1 == IF w.status = NoStatus THEN [w EXCEPT !.status = StatusOK] ELSE w
    IN  IF ok THEN [w1 EXCEPT !.body = Append(@, data)] ELSE w1

\* http.Error(w, msg, code)
HttpError(w, msg, code, ok) ==
    WriterWrite(WriteHeader(SetHeaders(w, "text/plain", ""), code), msg, ok)

(* ----------------------------------------------------------------- state *)

VARIABLES
    splunkUrlOk,          \* config.SplunkUrl is a URL NewClient accepts
    mainpc,               \* position of main: "init", "serving"
    writeClient,          \* main's writeClient
    writeClientBuilds,    \* times main built writeClient
    nextHandle,           \* next allocation id
    ReadRequestCounter,   \* metrics.ReadRequestCounter
    WriteRequestCounter,  \* metrics.WriteRequestCounter
    req                   \* per request: the locals of its handler invocation
\* req[p]: kind and auth are the request (route, Authorization header); pc
\* is the handler's position and fail the stage it failed at; env lists what
\* the handler's environment answered (body read, decoding, backend,
\* connection); incs is what the request added to its counter; built lists
\* the (user, pass) of each storage.NewClient call of the request; calls
\* lists its backend invocations; w is its ResponseWriter, log its records.

vars ==
    <<splunkUrlOk, mainpc, writeClient, writeClientBuilds, nextHandle,
      ReadRequestCounter, WriteRequestCounter, req>>

NewRequest ==
    [kind |-> "none", auth |-> NoHeader, pc |-> "idle", fail |-> "none",
     env |-> <<>>, incs |-> 0, built |-> <<>>, readClient |-> Nil,
     calls |-> <<>>, resp |-> "", w |-> NewWriter, log |-> <<>>]

Init ==
    /\ splunkUrlOk \in BOOLEAN
    /\ mainpc = "init"
    /\ writeClient = Nil
    /\ writeClientBuilds = 0
    /\ nextHandle = 1
    /\ ReadRequestCounter = 0
    /\ WriteRequestCounter = 0
    /\ req = [p \in Procs |-> NewRequest]

(* ------------------------------------------------------ handler helpers *)

\* the environment answered x to request r
Env(r, x) == [r EXCEPT !.env = Append(@, x)]

\* level.Error(l).Log(...) / level.Warn(l).Log(...): one record of request r
Log(r, lvl, msg, err) ==
    [r EXCEPT !.log = Append(@, [level |-> lvl, msg |-> msg, err |-> err])]

\* http.Error(w, err.Error(), code); return
ErrorReturn(r, stage, err, code) ==
    [r EXCEPT !.pc = "done", !.fail = stage,
              !.w = HttpError(@, err, code, TRUE)]

\* faulty additions: the addition is lost, the addition is made twice
CounterAddLost(c) == c
CounterAddTwice(c) == c + 2

\* metrics.<X>RequestCounter.Add(1): one atomic addition
CounterAdd(c) == c + 1

\* if err != nil after ioutil.ReadAll(r.Body)
ReadAllErr(r) ==
    ErrorReturn(Log(r, "error", "Read error", "io error"),
                "body", "io error", StatusInternalServerError)

\* a faulty DecodeErr: the decoding failure reported as a server error
DecodeErrAs500(r) ==
    ErrorReturn(Log(r, "error", "Decode error", "snappy: corrupt input"),
                "snappy", "snappy: corrupt input", StatusInternalServerError)

\* if err != nil after snappy.Decode(nil, compressed)
DecodeErr(r) ==
    ErrorReturn(Log(r, "error", "Decode error", "snappy: corrupt input"),
                "snappy", "snappy: corrupt input", StatusBadRequest)

\* a faulty UnmarshalErr: the return after http.Error is missing
UnmarshalErrNoReturn(r) ==
    [ErrorReturn(Log(r, "error", "Unmarshal error", "proto: bad message"),
                 "proto", "proto: bad message", StatusBadRequest)
       EXCEPT !.pc = IF r.kind = "read" THEN "NewClient" ELSE "Write"]

\* if err := proto.Unmarshal(reqBuf, &req); err != nil
UnmarshalErr(r) ==
    ErrorReturn(Log(r, "error", "Unmarshal error", "proto: bad message"),
                "proto", "proto: bad message", StatusBadRequest)

\* the statement after a successful proto.Unmarshal
AfterUnmarshal(r) ==
    [r EXCEPT !.pc = IF r.kind = "read" THEN "NewClient" ELSE "Write"]

\* a faulty ReadCreds: the static credentials of the write client
ReadCredsStatic(r) == <<EmptyStr, EmptyStr>>

\* the (user, pass) the /read handler hands to storage.NewClient
ReadCreds(r) == <<BasicAuth(r.auth)[1], BasicAuth(r.auth)[2]>>

\* a faulty ReadNewClient: the handler reuses main's client
ReadNewClientShared(r, id) == writeClient

\* readClient, _ := storage.NewClient(config.SplunkUrl, user, pass, ...)
ReadNewClient(r, id) ==
    NewClient(splunkUrlOk, ReadCreds(r)[1], ReadCreds(r)[2], TimeoutSeconds, id)

\* a faulty WriteHandle: a client carrying the caller's credentials
WriteHandlePerCaller(r) ==
    NewClient(splunkUrlOk, BasicAuth(r.auth)[1], BasicAuth(r.auth)[2],
              TimeoutSeconds, writeClient.id)

\* the handle the /write handler calls Write on
WriteHandle(r) == writeClient

\* a faulty BackendErr: the failed call is made once more before the error
\* is reported
BackendErrRetry(r, err) ==
    IF Len(r.calls) < 2
    THEN [r EXCEPT !.pc = IF r.kind = "read" THEN "Read" ELSE "Write"]
    ELSE ErrorReturn(r, "backend", err, StatusInternalServerError)

\* a faulty BackendErr: a generic message replaces the backend's
BackendErrGeneric(r, err) ==
    ErrorReturn(r, "backend", "Internal Server Error", StatusInternalServerError)

\* if err != nil after readClient.Read(&req) / writeClient.Write(&req)
BackendErr(r, err) ==
    ErrorReturn(r, "backend", err, StatusInternalServerError)

\* the messages a backend call fails with; the last is the deadline's
BackendErrors == {"backend error"}
TimeoutError == "timeout"

\* what Read returns on success
Results == {"result"}

\* proto.Marshal(resp), snappy.Encode(nil, data)
Marshal(m) == <<"proto", m>>
SnappyEncode(d) == <<"snappy", d>>

Step(p, r) == req' = [req EXCEPT ![p] = r]

Globals ==
    <<splunkUrlOk, mainpc, writeClient, writeClientBuilds, nextHandle,
      ReadRequestCounter, WriteRequestCounter>>

(* ------------------------------------------------------------------ main *)

\* main: writeClient, _ := storage.NewClient(..., "", "", ...), both
\* handlers registered, then http.ListenAndServe
MainStart ==
    /\ mainpc = "init"
    /\ writeClient' =
           NewClient(splunkUrlOk, EmptyStr, EmptyStr, TimeoutSeconds, nextHandle)
    /\ writeClientBuilds' = writeClientBuilds + 1
    /\ nextHandle' = nextHandle + 1
    /\ mainpc' = "serving"
    /\ UNCHANGED <<splunkUrlOk, ReadRequestCounter, WriteRequestCounter, req>>

\* net/http accepts a request and starts its handler.  The Authorization
\* header of a /write request is drawn here; that of a /read request is
\* drawn where its handler reads it, in ReadConstruct.
Accept(p) ==
    /\ mainpc = "serving"
    /\ req[p].pc = "idle"
    /\ \/ Step(p, [req[p] EXCEPT !.kind = "read", !.pc = "ReadAll"])
       \/ \E a \in WriteAuthHeaders :
              Step(p, [req[p] EXCEPT !.kind = "write", !.auth = a,
                                     !.pc = "ReadAll"])
    /\ UNCHANGED Globals

(* ------------------------------------------- steps both handlers share *)

\* compressed, err := ioutil.ReadAll(r.Body)
ReadAll(p) ==
    /\ req[p].pc = "ReadAll"
    /\ \E ok \in BOOLEAN :
           Step(p, IF ok THEN [Env(req[p], "body ok") EXCEPT !.pc = "Decode"]
                         ELSE ReadAllErr(Env(req[p], "body error")))
    /\ UNCHANGED Globals

\* reqBuf, err := snappy.Decode(nil, compressed)
Decode(p) ==
    /\ req[p].pc = "Decode"
    /\ \E ok \in BOOLEAN :
           Step(p, IF ok THEN [Env(req[p], "snappy ok") EXCEPT !.pc = "Add"]
                         ELSE DecodeErr(Env(req[p], "snappy error")))
    /\ UNCHANGED Globals

\* proto.Unmarshal(reqBuf, &req)
Unmarshal(p) ==
    /\ req[p].pc = "Unmarshal"
    /\ \E ok \in BOOLEAN :
           Step(p, IF ok THEN AfterUnmarshal(Env(req[p], "proto ok"))
                         ELSE UnmarshalErr(Env(req[p], "proto error")))
    /\ UNCHANGED Globals

(* ---------------------------------------------------------------- /read *)

\* metrics.ReadRequestCounter.Add(1)
ReadCount(p) ==
    /\ req[p].pc = "Add" /\ req[p].kind = "read"
    /\ ReadRequestCounter' = CounterAdd(ReadRequestCounter)
    /\ Step(p, [req[p] EXCEPT !.pc = "Unmarshal",
                              !.incs = @ + (ReadRequestCounter' - ReadRequestCounter)])
    /\ UNCHANGED <<splunkUrlOk, mainpc, writeClient, writeClientBuilds,
                   nextHandle, WriteRequestCounter>>

\* user, pass, _ := r.BasicAuth(); readClient, _ := storage.NewClient(...)
ReadConstruct(p) ==
    /\ req[p].pc = "NewClient"
    /\ \E a \in ReadAuthHeaders :
         LET r == [req[p] EXCEPT !.auth = a]
         IN  Step(p, [r EXCEPT !.pc = "Read",
                               !.built = Append(@, ReadCreds(r)),
                               !.readClient = ReadNewClient(r, nextHandle)])
    /\ nextHandle' = nextHandle + 1
    /\ UNCHANGED <<splunkUrlOk, mainpc, writeClient, writeClientBuilds,
                   ReadRequestCounter, WriteRequestCounter>>

\* readClient.Read(&req) on a constructed handle: the call is in flight
ReadInvoke(p) ==
    /\ req[p].pc = "Read"
    /\ req[p].readClient # Nil
    /\ Step(p, [req[p] EXCEPT !.pc = "Reading",
                !.calls = Append(@, [op |-> "Read", handle |-> req[p].readClient])])
    /\ UNCHANGED Globals

\* readClient.Read(&req) on the absent handle: the method runs with a nil
\* receiver and panics where it uses it; net/http recovers the panic and
\* closes the connection without a response
ReadInvokeNilPanic(p) ==
    /\ req[p].pc = "Read"
    /\ req[p].readClient = Nil
    /\ Step(p, [Env(req[p], "panic") EXCEPT !.pc = "done", !.fail = "panic",
                !.calls = Append(@, [op |-> "Read", handle |-> Nil])])
    /\ UNCHANGED Globals

\* readClient.Read(&req) on the absent handle, the method returning an
\* error before it uses its receiver
ReadInvokeNilErr(p) ==
    /\ req[p].pc = "Read"
    /\ req[p].readClient = Nil
    /\ Step(p, BackendErr([Env(req[p], "nil client") EXCEPT
                !.calls = Append(@, [op |-> "Read", handle |-> Nil])],
                "nil client"))
    /\ UNCHANGED Globals

\* resp, err := readClient.Read(&req) returns within the deadline
ReadReturn(p) ==
    /\ req[p].pc = "Reading"
    /\ \/ \E res \in Results :
              Step(p, [Env(req[p], res) EXCEPT !.pc = "Marshal", !.resp = res])
       \/ \E e \in BackendErrors : Step(p, BackendErr(Env(req[p], e), e))
    /\ UNCHANGED Globals

\* the handle's timeout expires: Read returns the timeout error
ReadTimeout(p) ==
    /\ req[p].pc = "Reading"
    /\ Step(p, BackendErr(Env(req[p], TimeoutError), TimeoutError))
    /\ UNCHANGED Globals

\* data, err := proto.Marshal(resp)
ReadMarshal(p) ==
    /\ req[p].pc = "Marshal"
    /\ \E ok \in BOOLEAN :
           Step(p, IF ok THEN [Env(req[p], "marshal ok") EXCEPT !.pc = "Respond"]
                   ELSE ErrorReturn(Env(req[p], "marshal error"), "marshal",
                                    "proto: marshal", StatusInternalServerError))
    /\ UNCHANGED Globals

\* a faulty ReadRespond: the headers are set after the body is written
ReadRespondLateHeaders(p) ==
    /\ req[p].pc = "Respond"
    /\ \E ok \in BOOLEAN :
         LET r0 == [Env(req[p], IF ok THEN "sent" ELSE "write error") EXCEPT !.w =
                      SetHeaders(WriterWrite(@, SnappyEncode(Marshal(req[p].resp)), ok),
                                 "application/x-protobuf", "snappy")]
         IN  Step(p, IF ok THEN [r0 EXCEPT !.pc = "done"]
                     ELSE [Log(r0, "warn", "Error executing query", "write error")
                             EXCEPT !.pc = "done", !.fail = "respond",
                                    !.w = HttpError(@, "write error",
                                            StatusInternalServerError, FALSE)])
    /\ UNCHANGED Globals

\* the two Header().Set calls, snappy.Encode, w.Write(compressed) and the
\* branch taken when the write fails
ReadRespond(p) ==
    /\ req[p].pc = "Respond"
    /\ \E ok \in BOOLEAN :
         LET r0 == [Env(req[p], IF ok THEN "sent" ELSE "write error") EXCEPT !.w =
                      WriterWrite(SetHeaders(@, "application/x-protobuf", "snappy"),
                                  SnappyEncode(Marshal(req[p].resp)), ok)]
         IN  Step(p, IF ok THEN [r0 EXCEPT !.pc = "done"]
                     ELSE [Log(r0, "warn", "Error executing query", "write error")
                             EXCEPT !.pc = "done", !.fail = "respond",
                                    !.w = HttpError(@, "write error",
                                            StatusInternalServerError, FALSE)])
    /\ UNCHANGED Globals

(* --------------------------------------------------------------- /write *)

\* metrics.WriteRequestCounter.Add(1)
WriteCount(p) ==
    /\ req[p].pc = "Add" /\ req[p].kind = "write"
    /\ WriteRequestCounter' = CounterAdd(WriteRequestCounter)
    /\ Step(p, [req[p] EXCEPT !.pc = "Unmarshal",
                              !.incs = @ + (WriteRequestCounter' - WriteRequestCounter)])
    /\ UNCHANGED <<splunkUrlOk, mainpc, writeClient, writeClientBuilds,
                   nextHandle, ReadRequestCounter>>

\* writeClient.Write(&req) on a constructed handle: the call is in flight
WriteInvoke(p) ==
    /\ req[p].pc = "Write"
    /\ WriteHandle(req[p]) # Nil
    /\ Step(p, [req[p] EXCEPT !.pc = "Writing",
                !.calls = Append(@, [op |-> "Write", handle |-> WriteHandle(req[p])])])
    /\ UNCHANGED Globals

\* writeClient.Write(&req) on the absent handle, as ReadInvokeNilPanic
WriteInvokeNilPanic(p) ==
    /\ req[p].pc = "Write"
    /\ WriteHandle(req[p]) = Nil
    /\ Step(p, [Env(req[p], "panic") EXCEPT !.pc = "done", !.fail = "panic",
                !.calls = Append(@, [op |-> "Write", handle |-> Nil])])
    /\ UNCHANGED Globals

\* writeClient.Write(&req) on the absent handle, as ReadInvokeNilErr
WriteInvokeNilErr(p) ==
    /\ req[p].pc = "Write"
    /\ WriteHandle(req[p]) = Nil
    /\ Step(p, BackendErr([Env(req[p], "nil client") EXCEPT
                !.calls = Append(@, [op |-> "Write", handle |-> Nil])],
                "nil client"))
    /\ UNCHANGED Globals

\* err = writeClient.Write(&req) returns within the deadline
WriteReturn(p) ==
    /\ req[p].pc = "Writing"
    /\ \/ Step(p, [Env(req[p], "written") EXCEPT !.pc = "Ack"])
       \/ \E e \in BackendErrors : Step(p, BackendErr(Env(req[p], e), e))
    /\ UNCHANGED Globals

\* the handle's timeout expires: Write returns the timeout error
WriteTimeout(p) ==
    /\ req[p].pc = "Writing"
    /\ Step(p, BackendErr(Env(req[p], TimeoutError), TimeoutError))
    /\ UNCHANGED Globals

\* a faulty WriteRespond: a failed write of "ok" is answered with http.Error
WriteRespondThenError(p) ==
    /\ req[p].pc = "Ack"
    /\ \E ok \in BOOLEAN :
         LET r0 == [Env(req[p], IF ok THEN "sent" ELSE "write error")
                      EXCEPT !.pc = "done",
                             !.w = WriterWrite(WriteHeader(@, StatusOK), "ok", ok)]
         IN  Step(p, IF ok THEN r0
                     ELSE [Log(r0, "error", "write", "write error")
                             EXCEPT !.fail = "respond",
                                    !.w = HttpError(@, "write error",
                                            StatusInternalServerError, FALSE)])
    /\ UNCHANGED Globals

\* w.WriteHeader(200); w.Write([]byte("ok")), logged when it fails
WriteRespond(p) ==
    /\ req[p].pc = "Ack"
    /\ \E ok \in BOOLEAN :
         LET r0 == [Env(req[p], IF ok THEN "sent" ELSE "write error")
                      EXCEPT !.pc = "done",
                             !.w = WriterWrite(WriteHeader(@, StatusOK), "ok", ok)]
         IN  Step(p, IF ok THEN r0
                     ELSE [Log(r0, "error", "write", "write error")
                             EXCEPT !.fail = "respond"])
    /\ UNCHANGED Globals

(* ------------------------------------------------------- specifications *)

\* one step of the handler serving request p
Handler(p) ==
    \/ ReadAll(p) \/ Decode(p) \/ Unmarshal(p)
    \/ ReadCount(p) \/ ReadConstruct(p) \/ ReadInvoke(p)
    \/ ReadInvokeNilPanic(p) \/ ReadInvokeNilErr(p)
    \/ ReadMarshal(p) \/ ReadRespond(p)
    \/ WriteCount(p) \/ WriteInvoke(p)
    \/ WriteInvokeNilPanic(p) \/ WriteInvokeNilErr(p)
    \/ WriteRespond(p)

\* the backend answers a call in flight
Backend(p) == ReadReturn(p) \/ WriteReturn(p)

\* the deadline of a call in flight expires
Deadline(p) == ReadTimeout(p) \/ WriteTimeout(p)

Next ==
    \/ MainStart
    \/ \E p \in Procs : Accept(p)
    \/ \E p \in Procs : Handler(p)
    \/ \E p \in Procs : Backend(p)
    \/ \E p \in Procs : Deadline(p)

Spec == Init /\ [][Next]_vars

\* The Go scheduler runs every runnable goroutine, and a deadline that is
\* set expires; nothing makes a request arrive or the backend answer.
FairSpec ==
    /\ Spec
    /\ WF_vars(MainStart)
    /\ \A p \in Procs : WF_vars(Handler(p)) /\ WF_vars(Deadline(p))

(* ============================================================== claims *)

Done(p) == req[p].pc = "done"

\* request p failed in decoding: snappy.Decode or proto.Unmarshal
DecodeFailed(p) == req[p].fail \in {"snappy", "proto"}

\* the body of request p was read and fully decoded
Decoded(p) ==
    /\ req[p].pc \notin {"idle", "ReadAll", "Decode", "Add", "Unmarshal"}
    /\ req[p].fail \notin {"body", "snappy", "proto"}

\* the backend call of request p returned an error
BackendFailed(p) == req[p].fail = "backend"

(* C1: a request whose body is read but whose decoding fails, at the      *)
(* snappy stage or at the protobuf stage, leaves its request counter       *)
(* unchanged: it added nothing to it.                                      *)
C1_DecodeFailureLeavesCounter ==
    \A p \in Procs : DecodeFailed(p) => req[p].incs = 0

(* C2: a request whose body is read and fully decoded has added exactly    *)
(* one to its request counter, from the moment decoding is over and        *)
(* whatever the backend call does afterwards.                              *)
C2_WellFormedCountsOnce ==
    \A p \in Procs : Decoded(p) => req[p].incs = 1

\* one decoded request whose backend call failed and one that passed every
\* stage, each counted once
C2_Witness ==
    \E p, q \in Procs :
        /\ Done(p) /\ Decoded(p) /\ BackendFailed(p) /\ req[p].incs = 1
        /\ Done(q) /\ Decoded(q) /\ req[q].fail = "none" /\ req[q].incs = 1

(* C3: in the /read handler, when storage.NewClient fails the handler      *)
(* never invokes Read on the absent handle, and the request is answered    *)
(* with status 500.                                                        *)
C3_NoReadOnFailedConstruction ==
    \A p \in Procs :
        (req[p].kind = "read" /\ Len(req[p].built) > 0 /\ req[p].readClient = Nil)
            => /\ req[p].calls = <<>>
               /\ Done(p) => req[p].w.status = StatusInternalServerError

(* C4: when decoding of the body fails, at either stage and on either      *)
(* endpoint, no backend client is constructed for the request and no Read  *)
(* or Write is invoked for it.                                             *)
C4_MalformedBodyShortCircuit ==
    \A p \in Procs :
        DecodeFailed(p) =>
            /\ req[p].calls = <<>>
            /\ req[p].built = <<>>
            /\ req[p].readClient = Nil

\* a /read request refused at the protobuf stage and a /write request
\* refused at the snappy stage, both answered
C4_Witness ==
    \E p, q \in Procs :
        /\ Done(p) /\ req[p].kind = "read" /\ req[p].fail = "proto"
        /\ Done(q) /\ req[q].kind = "write" /\ req[q].fail = "snappy"
        /\ req[p].calls = <<>> /\ req[q].calls = <<>>

(* C5: on both endpoints a body read failure is answered 500, a decoding  *)
(* failure (snappy or protobuf) 400, a backend call failure 500, a request *)
(* that passes every stage 200; and the handlers commit no status other    *)
(* than 200, 400 and 500.                                                  *)
C5_StatusClassification ==
    \A p \in Procs :
        /\ req[p].w.status \in
               {NoStatus, StatusOK, StatusBadRequest, StatusInternalServerError}
        /\ Done(p) =>
            /\ req[p].fail = "body" => req[p].w.status = StatusInternalServerError
            /\ DecodeFailed(p) => req[p].w.status = StatusBadRequest
            /\ BackendFailed(p) => req[p].w.status = StatusInternalServerError
            /\ req[p].fail = "none" => req[p].w.status = StatusOK

\* a request refused with 400 at the snappy stage next to one answered 200
C5_Witness ==
    \E p, q \in Procs :
        /\ Done(p) /\ req[p].fail = "snappy" /\ req[p].w.status = StatusBadRequest
        /\ Done(q) /\ req[q].fail = "none" /\ req[q].w.status = StatusOK

(* C6: every request that reaches the backend call (readClient.Read,       *)
(* writeClient.Write) eventually receives a response: a status is          *)
(* committed for it, 500 with the timeout error when the deadline of the   *)
(* call expires.                                                           *)
C6_BackendCallAnswered ==
    \A p \in Procs :
        (req[p].pc \in {"Read", "Write"}) ~> (req[p].w.status # NoStatus)

\* the (user, pass) a parsable Basic header carries, none otherwise
SentCreds(h) ==
    IF \E c \in CallerCreds : h = BasicHeader(c)
    THEN CHOOSE c \in CallerCreds : h = BasicHeader(c)
    ELSE <<EmptyStr, EmptyStr>>

(* C7: every /read request that decodes has its client constructed, once, *)
(* with exactly the (user, pass) its Basic Authorization header was made   *)
(* from, and with ("", "") when the header is absent or does not parse; a  *)
(* constructed handle carries the same pair; and no request is refused on  *)
(* account of its header: every decoded /read request goes on to Read.     *)
C7_ReadCredentialPassthrough ==
    \A p \in Procs :
        (req[p].kind = "read" /\ Decoded(p) /\ req[p].pc # "NewClient") =>
            /\ req[p].built = <<SentCreds(req[p].auth)>>
            /\ req[p].readClient # Nil =>
                   <<req[p].readClient.user, req[p].readClient.pass>>
                       = SentCreds(req[p].auth)
            /\ req[p].pc # "Read" => req[p].calls # <<>>

\* a /read request with Basic credentials and one whose header does not
\* parse, both past the construction of their client
C7_Witness ==
    \E p, q \in Procs :
        /\ req[p].kind = "read" /\ req[p].auth \in {BasicHeader(c) : c \in CallerCreds}
        /\ req[p].readClient # Nil /\ req[p].readClient.pass = <<"p", ":", "w">>
        /\ req[p].calls # <<>>
        /\ req[q].kind = "read" /\ req[q].auth \in BadHeaders
        /\ req[q].built = <<<<EmptyStr, EmptyStr>>>> /\ req[q].calls # <<>>

(* C8: caller credentials never flow into the write client: every Write   *)
(* is invoked on main's writeClient, which carries the static ("", ""),    *)
(* the /write handler constructs no client; and two /write requests that   *)
(* got the same answers from their environment and stand at the same       *)
(* statement have made the same Write invocations, hold the same response  *)
(* and the same log records, whatever their Authorization headers.         *)
C8_WriteIgnoresCallerCredentials ==
    /\ \A p \in Procs :
           req[p].kind = "write" =>
               /\ req[p].built = <<>>
               /\ \A i \in DOMAIN req[p].calls :
                      /\ req[p].calls[i].handle = writeClient
                      /\ req[p].calls[i].handle.user = EmptyStr
                      /\ req[p].calls[i].handle.pass = EmptyStr
    /\ \A p, q \in Procs :
           (/\ req[p].kind = "write" /\ req[q].kind = "write"
            /\ req[p].env = req[q].env /\ req[p].pc = req[q].pc) =>
               /\ req[p].calls = req[q].calls
               /\ req[p].w = req[q].w
               /\ req[p].log = req[q].log

\* two answered /write requests, one with Basic credentials and one with
\* none, with the same Write invocation on a constructed handle
C8_Witness ==
    \E p, q \in Procs :
        /\ req[p].kind = "write" /\ req[q].kind = "write"
        /\ req[p].auth # req[q].auth
        /\ Done(p) /\ Done(q) /\ req[p].env = req[q].env
        /\ Len(req[p].calls) = 1 /\ req[p].calls[1].handle # Nil
        /\ req[p].calls = req[q].calls
        /\ req[p].w.status = StatusOK /\ req[q].w.status = StatusOK

\* the requests whose handler is past the Add(1) of its counter
Counted(kind) ==
    { p \in Procs :
        /\ req[p].kind = kind
        /\ req[p].pc \notin {"idle", "ReadAll", "Decode", "Add"}
        /\ req[p].fail \notin {"body", "snappy"} }

\* the constructed read handles in use by request p
ReadHandles(p) ==
    {req[p].readClient} \cup {req[p].calls[i].handle : i \in DOMAIN req[p].calls}

(* C9: main constructs the write client exactly once, before any request  *)
(* is served, and no step afterwards changes it; every /read request that  *)
(* passes decoding constructs one handle of its own, invokes Read on that  *)
(* handle only, and no constructed read handle is the write client or a    *)
(* handle of another request.                                              *)
C9_HandleOwnership ==
    /\ [](\A p \in Procs :
            req[p].pc # "idle" => mainpc = "serving" /\ writeClientBuilds = 1)
    /\ [][mainpc = "serving" =>
             writeClient' = writeClient /\ writeClientBuilds' = writeClientBuilds]_vars
    /\ [](\A p \in Procs :
            (req[p].kind = "read" /\ Decoded(p) /\ req[p].pc # "NewClient") =>
                /\ Len(req[p].built) = 1
                /\ \A i \in DOMAIN req[p].calls :
                       req[p].calls[i].handle = req[p].readClient
                /\ req[p].readClient # Nil =>
                       /\ req[p].readClient.id # writeClient.id
                       /\ \A q \in Procs \ {p} :
                              \A h \in ReadHandles(q) : h.id # req[p].readClient.id)

\* two /read requests with Read in flight at once, each on its own handle
C9_Witness ==
    \E p, q \in Procs :
        /\ p # q
        /\ req[p].pc = "Reading" /\ req[q].pc = "Reading"
        /\ req[p].readClient # Nil /\ req[q].readClient # Nil
        /\ req[p].readClient.id # req[q].readClient.id
        /\ writeClient # Nil

LastEnv(p) == req[p].env[Len(req[p].env)]

\* the backend Write of request p returned nil
WriteSucceeded(p) ==
    /\ req[p].kind = "write"
    /\ \E i \in DOMAIN req[p].env : req[p].env[i] = "written"

(* C11: when the backend Write succeeds the /write handler commits status *)
(* 200 and then writes the body "ok"; when writing that body fails, the    *)
(* failure is logged at error level and nothing more is attempted: the     *)
(* status stays 200, no second WriteHeader is called, no error body or     *)
(* error header is written.                                                *)
C11_WriteAcknowledgement ==
    \A p \in Procs :
        (WriteSucceeded(p) /\ Done(p)) =>
            /\ req[p].w.status = StatusOK
            /\ req[p].w.superfluous = 0
            /\ req[p].w.ctype = ""
            /\ LastEnv(p) = "sent" =>
                   req[p].w.body = <<"ok">> /\ req[p].log = <<>>
            /\ LastEnv(p) = "write error" =>
                   /\ req[p].w.body = <<>>
                   /\ req[p].log = <<[level |-> "error", msg |-> "write",
                                      err |-> "write error"]>>

\* one /write request acknowledged with "ok" and one whose acknowledgement
\* could not be written, both with status 200
C11_Witness ==
    \E p, q \in Procs :
        /\ WriteSucceeded(p) /\ Done(p) /\ req[p].w.body = <<"ok">>
        /\ WriteSucceeded(q) /\ Done(q) /\ LastEnv(q) = "write error"
        /\ req[q].w.status = StatusOK /\ Len(req[q].log) = 1

\* the backend Read of request p returned a result and proto.Marshal
\* serialized it
ReadSerialized(p) ==
    /\ req[p].kind = "read"
    /\ \E i \in DOMAIN req[p].env : req[p].env[i] = "marshal ok"

\* the results the backend returned to request p
Returned(p) == {req[p].env[i] : i \in DOMAIN req[p].env} \cap Results

(* C12: when the backend Read and the serialization of its result         *)
(* succeed, the /read handler answers with status 200 and the headers      *)
(* Content-Type: application/x-protobuf and Content-Encoding: snappy, set  *)
(* before the first body byte commits the status line, and the body it     *)
(* sends is the snappy encoding of the serialization of exactly the result *)
(* the backend returned.                                                   *)
C12_ReadSuccessResponse ==
    \A p \in Procs :
        (ReadSerialized(p) /\ Done(p)) =>
            /\ req[p].w.status = StatusOK
            /\ req[p].w.ctype = "application/x-protobuf"
            /\ req[p].w.cenc = "snappy"
            /\ LastEnv(p) = "sent" =>
                   /\ req[p].fail = "none"
                   /\ \E res \in Returned(p) :
                          /\ Returned(p) = {res}
                          /\ req[p].w.body = <<SnappyEncode(Marshal(res))>>

\* a /read request answered 200 with the encoded result of its backend
C12_Witness ==
    \E p \in Procs :
        /\ ReadSerialized(p) /\ Done(p) /\ LastEnv(p) = "sent"
        /\ req[p].w.status = StatusOK /\ req[p].w.cenc = "snappy"
        /\ Len(req[p].w.body) = 1 /\ req[p].w.body[1][1] = "snappy"

(* C13: in the /read handler a failure while encoding the response, which *)
(* happens before any status is sent, is logged and answered with status   *)
(* 500; a failure while writing the response body, after the status is     *)
(* committed, is logged only: no further WriteHeader is attempted.         *)
C13_ReadResponseFailures ==
    \A p \in Procs :
        (req[p].kind = "read" /\ Done(p)) =>
            /\ req[p].fail = "marshal" =>
                   /\ req[p].w.status = StatusInternalServerError
                   /\ req[p].log # <<>>
            /\ req[p].fail = "respond" =>
                   /\ req[p].log # <<>>
                   /\ req[p].w.superfluous = 0

(* C14: every request that fails, at whichever stage of either handler,   *)
(* has emitted a log record of level error carrying the underlying         *)
(* message; a request that succeeds has emitted no log record.             *)
C14_FailuresLogged ==
    \A p \in Procs :
        Done(p) =>
            /\ req[p].fail # "none" =>
                   \E i \in DOMAIN req[p].log :
                       /\ req[p].log[i].level = "error"
                       /\ req[p].log[i].err # ""
            /\ req[p].fail = "none" => req[p].log = <<>>

(* C15: for every request on either endpoint the backend operation is     *)
(* invoked at most once, and a backend failure ends the handler at once    *)
(* with status 500, after that single invocation.                          *)
C15_NoRetry ==
    \A p \in Procs :
        /\ Len(req[p].calls) <= 1
        /\ BackendFailed(p) =>
               /\ Done(p)
               /\ Len(req[p].calls) = 1
               /\ req[p].w.status = StatusInternalServerError

\* a request whose single backend call, on a constructed handle, failed
C15_Witness ==
    \E p \in Procs :
        /\ BackendFailed(p) /\ Done(p)
        /\ Len(req[p].calls) = 1 /\ req[p].calls[1].handle # Nil
        /\ req[p].w.status = StatusInternalServerError

(* C16: when the backend Read or Write returns an error, the response has *)
(* status 500 and its body is that error's message, unmodified: not a      *)
(* generic message and not the message of another stage.                   *)
C16_BackendErrorVerbatim ==
    \A p \in Procs :
        BackendFailed(p) =>
            /\ req[p].w.status = StatusInternalServerError
            /\ LastEnv(p) \in BackendErrors \cup {TimeoutError, "nil client"}
            /\ req[p].w.body = <<LastEnv(p)>>

\* a /read request answered with the backend's error and a /write request
\* answered with the timeout error
C16_Witness ==
    \E p, q \in Procs :
        /\ req[p].kind = "read" /\ BackendFailed(p)
        /\ req[p].w.body = <<"backend error">>
        /\ req[q].kind = "write" /\ BackendFailed(q)
        /\ req[q].w.body = <<TimeoutError>>

\* the stage of the /write state machine a handler with locals r stands in
WriteStage(r) ==
    CASE r.pc \in {"idle", "ReadAll"} -> "Idle"
      [] r.pc \in {"Decode", "Add", "Unmarshal"} -> "BodyReceived"
      [] r.pc = "Write" -> "Decoded"
      [] r.pc \in {"Writing", "Ack"} -> "Forwarded"
      [] r.pc = "done" /\ r.fail \in {"none", "respond"} -> "Responded"
      [] OTHER -> "Failed"

StageSuccessor ==
    { <<"Idle", "BodyReceived">>, <<"BodyReceived", "Decoded">>,
      <<"Decoded", "Forwarded">>, <<"Forwarded", "Responded">> }

\* a step leaves the /write request p in its stage, moves it to the next
\* stage, or makes it leave to Failed
StageOrderStep(p) ==
    LET s == WriteStage(req[p])
        t == WriteStage(req'[p])
    IN  \/ t = s
        \/ <<s, t>> \in StageSuccessor
        \/ t = "Failed" /\ s \notin {"Responded", "Failed"}

\* a step that adds to the counter for the /write request p is taken in
\* stage Decoded, before Write is invoked
CountedInDecodedStep(p) ==
    req'[p].incs # req[p].incs =>
        WriteStage(req[p]) = "Decoded" /\ req[p].calls = <<>>

(* C17: every /write request moves through Idle, BodyReceived, Decoded,   *)
(* Forwarded, Responded in that order, one stage at a time and never back, *)
(* or leaves to Failed; and the write-request counter is incremented only  *)
(* in stage Decoded, once decoding has succeeded and before Write is       *)
(* invoked.                                                                *)
C17_WriteStageOrder ==
    [][\A p \in Procs :
          req'[p].kind = "write" => StageOrderStep(p) /\ CountedInDecodedStep(p)]_vars

(* C18: in every execution of either handler the status is set at most    *)
(* once: no step calls WriteHeader, directly or through http.Error, after  *)
(* a status or body bytes are committed for the request; and every handler *)
(* execution that returns has committed a status.                          *)
C18_SingleResponse ==
    \A p \in Procs :
        /\ req[p].w.superfluous = 0
        /\ (Done(p) /\ req[p].fail # "panic") => req[p].w.status # NoStatus

\* the number of backend invocations made so far by the requests 1..n of
\* the given kind
RECURSIVE InvocationsUpTo(_, _)
InvocationsUpTo(kind, n) ==
    IF n = 0 THEN 0
    ELSE InvocationsUpTo(kind, n - 1)
           + (IF req[n].kind = kind THEN Len(req[n].calls) ELSE 0)

Invocations(kind) == InvocationsUpTo(kind, NumRequests)

(* C19: in every reachable state, under any interleaving, the number of   *)
(* backend Read invocations made so far is at most the read-request        *)
(* counter and the number of Write invocations at most the write-request   *)
(* counter, every request that invoked the backend having incremented its  *)
(* counter before; and no step decreases a counter.                        *)
C19_CountersBoundBackendCalls ==
    /\ [](/\ Invocations("read") <= ReadRequestCounter
          /\ Invocations("write") <= WriteRequestCounter
          /\ \A p \in Procs : req[p].calls # <<>> => req[p].incs >= 1)
    /\ [][/\ ReadRequestCounter' >= ReadRequestCounter
          /\ WriteRequestCounter' >= WriteRequestCounter]_vars

\* a Read and a Write in flight at once, each counted, next to the counters
C19_Witness ==
    /\ Invocations("read") = 1 /\ Invocations("write") = 1
    /\ ReadRequestCounter = 1 /\ WriteRequestCounter = 1
    /\ \E p, q \in Procs : req[p].pc = "Reading" /\ req[q].pc = "Writing"

====
